---- MODULE Spec2Model ----
(***************************************************************************)
(* Lang2SQL: the question pipeline of main.py (upload, schema cache,       *)
(* prompt, model call, statement batch execution, preview, action log,     *)
(* chat history) and the helpers of gemini_sql.py.                         *)
(*                                                                         *)
(* Python strings are modelled as sequences of one-character strings, so   *)
(* that strip, split, lower, upper, startswith and the regular expression  *)
(* of extract_table_name are computed character by character.              *)
(***************************************************************************)
EXTENDS Integers, Sequences, FiniteSets, TLC

(***************************************************************************)
(* Python str operations                                                   *)
(***************************************************************************)

\* Python's None, for values that are otherwise character sequences.
None == <<"<None>">>

UpperLetters == <<"A","B","C","D","E","F","G","H","I","J","K","L","M","N","O","P","Q","R","S","T","U","V","W","X","Y","Z">>
LowerLetters == <<"a","b","c","d","e","f","g","h","i","j","k","l","m","n","o","p","q","r","s","t","u","v","w","x","y","z">>
Digits == <<"0","1","2","3","4","5","6","7","8","9">>

Range(s) == {s[i] : i \in DOMAIN s}

LowerMap == [c \in Range(UpperLetters) |-> LowerLetters[CHOOSE i \in DOMAIN UpperLetters : UpperLetters[i] = c]]
UpperMap == [c \in Range(LowerLetters) |-> UpperLetters[CHOOSE i \in DOMAIN LowerLetters : LowerLetters[i] = c]]

\* str.lower()
Lower(s) == [i \in 1..Len(s) |-> IF s[i] \in DOMAIN LowerMap THEN LowerMap[s[i]] ELSE s[i]]

\* str.upper()
Upper(s) == [i \in 1..Len(s) |-> IF s[i] \in DOMAIN UpperMap THEN UpperMap[s[i]] ELSE s[i]]

\* the characters str.strip(), str.split() and the regex class \s treat as whitespace
IsSpace(c) == c \in {" ", "\n", "\t"}

\* the first index >= i of s whose character is not whitespace (Len(s)+1 if none)
RECURSIVE SkipSpaces(_, _)
SkipSpaces(s, i) == IF i > Len(s) \/ ~IsSpace(s[i]) THEN i ELSE SkipSpaces(s, i + 1)

\* the last index <= i of s whose character is not whitespace (0 if none)
RECURSIVE SkipSpacesBack(_, _)
SkipSpacesBack(s, i) == IF i < 1 \/ ~IsSpace(s[i]) THEN i ELSE SkipSpacesBack(s, i - 1)

\* str.strip()
Strip(s) == SubSeq(s, SkipSpaces(s, 1), SkipSpacesBack(s, Len(s)))

\* str.startswith(p)
StartsWith(s, p) == Len(s) >= Len(p) /\ SubSeq(s, 1, Len(p)) = p

\* str.split(sep) for a one-character separator: every fragment, the empty ones included
RECURSIVE SplitFrom(_, _, _, _)
SplitFrom(s, sep, start, i) ==
    IF i > Len(s) THEN <<SubSeq(s, start, Len(s))>>
    ELSE IF s[i] = sep THEN <<SubSeq(s, start, i - 1)>> \o SplitFrom(s, sep, i + 1, i + 1)
    ELSE SplitFrom(s, sep, start, i + 1)

Split(s, sep) == SplitFrom(s, sep, 1, 1)

\* str.split(): the maximal runs of non-whitespace characters
RECURSIVE WordsFrom(_, _, _)
WordsFrom(s, start, i) ==
    IF i > Len(s) THEN (IF start < i THEN <<SubSeq(s, start, Len(s))>> ELSE <<>>)
    ELSE IF IsSpace(s[i])
         THEN (IF start < i THEN <<SubSeq(s, start, i - 1)>> ELSE <<>>) \o WordsFrom(s, i + 1, i + 1)
         ELSE WordsFrom(s, start, i + 1)

SplitWords(s) == WordsFrom(s, 1, 1)

(***************************************************************************)
(* gemini_sql.extract_table_name                                           *)
(***************************************************************************)

\* the alternation (?:from|into|update|table), in the order the pattern lists it
ReKeywords == << <<"f","r","o","m">>, <<"i","n","t","o">>, <<"u","p","d","a","t","e">>, <<"t","a","b","l","e">> >>

\* [a-zA-Z_]
IsIdentStart(c) == c \in Range(LowerLetters) \cup Range(UpperLetters) \cup {"_"}

\* [a-zA-Z0-9_]
IsIdentChar(c) == IsIdentStart(c) \/ c \in Range(Digits)

HasAt(s, i, w) == i + Len(w) - 1 <= Len(s) /\ SubSeq(s, i, i + Len(w) - 1) = w

\* the first index >= i of s whose character is no identifier character (Len(s)+1 if none)
RECURSIVE IdentEnd(_, _)
IdentEnd(s, i) == IF i > Len(s) \/ ~IsIdentChar(s[i]) THEN i ELSE IdentEnd(s, i + 1)

\* the pattern anchored at index i: group(1), or None when it does not match there
ReMatchAt(s, i) ==
    LET alts == {a \in DOMAIN ReKeywords : HasAt(s, i, ReKeywords[a])}
    IN  IF alts = {} THEN None
        ELSE LET a == CHOOSE x \in alts : \A y \in alts : x <= y
                 j == i + Len(ReKeywords[a])
                 k == SkipSpaces(s, j)
             IN  IF k = j \/ k > Len(s) THEN None
                 ELSE IF ~IsIdentStart(s[k]) THEN None
                 ELSE SubSeq(s, k, IdentEnd(s, k) - 1)

\* re.search: the match at the leftmost index at which the pattern matches
RECURSIVE ReSearchFrom(_, _)
ReSearchFrom(s, i) ==
    IF i > Len(s) THEN None
    ELSE LET m == ReMatchAt(s, i) IN IF m # None THEN m ELSE ReSearchFrom(s, i + 1)

ReSearch(s) == ReSearchFrom(s, 1)

extract_table_name(sql_query) == ReSearch(Lower(Strip(sql_query)))

(***************************************************************************)
(* The embedded relational engine (sqlite3), as far as the pipeline's      *)
(* statements use it.  A database is the sequence of its tables in         *)
(* sqlite_master order; a table has a name, ordered column names and rows. *)
(***************************************************************************)

kwSelect == <<"s","e","l","e","c","t">>
kwFrom == <<"f","r","o","m">>
kwLimit == <<"l","i","m","i","t">>
kwDelete == <<"d","e","l","e","t","e">>
kwWhere == <<"w","h","e","r","e">>
kwAmount == <<"a","m","o","u","n","t">>
kwInsert == <<"i","n","s","e","r","t">>
kwInto == <<"i","n","t","o">>
kwValues == <<"v","a","l","u","e","s">>
kwDrop == <<"d","r","o","p">>
kwTable == <<"t","a","b","l","e">>
kwCreate == <<"c","r","e","a","t","e">>
kwUpdate == <<"u","p","d","a","t","e">>
kwReplace == <<"r","e","p","l","a","c","e">>

IsIdentifier(w) == Len(w) >= 1 /\ IsIdentStart(w[1]) /\ \A i \in DOMAIN w : IsIdentChar(w[i])

IsNumber(w) == Len(w) >= 1 /\ \A i \in DOMAIN w : w[i] \in Range(Digits)

DigitValue(c) == (CHOOSE i \in DOMAIN Digits : Digits[i] = c) - 1

RECURSIVE ParseInt(_)
ParseInt(w) == IF w = <<>> THEN 0 ELSE 10 * ParseInt(SubSeq(w, 1, Len(w) - 1)) + DigitValue(w[Len(w)])

\* table names are matched without regard to case; 0 when the table does not exist
FindTable(db, ident) ==
    LET hits == {i \in DOMAIN db : Lower(db[i].name) = Lower(ident)}
    IN  IF hits = {} THEN 0 ELSE CHOOSE i \in hits : TRUE

FindColumn(cols, ident) ==
    LET hits == {i \in DOMAIN cols : Lower(cols[i]) = Lower(ident)}
    IN  IF hits = {} THEN 0 ELSE CHOOSE i \in hits : TRUE

RemoveAt(s, i) == SubSeq(s, 1, i - 1) \o SubSeq(s, i + 1, Len(s))

Take(s, n) == SubSeq(s, 1, IF Len(s) < n THEN Len(s) ELSE n)

SyntaxError == [error |-> "syntax error"]
NoSuchTable(t) == [error |-> "no such table", name |-> t]
NoSuchColumn(c) == [error |-> "no such column", name |-> c]
TableExists(t) == [error |-> "table already exists", name |-> t]
ValueCount(t) == [error |-> "wrong number of values", name |-> t]

LowerAll(w) == [i \in DOMAIN w |-> Lower(w[i])]

\* the statement forms the engine model understands, keywords in any case:
\*   SELECT 1 | SELECT * FROM t [LIMIT n] | DELETE FROM t WHERE amount < 0
\*   INSERT INTO t VALUES (3,-7) | DROP TABLE t | CREATE TABLE t (col)
\* anything else is a syntax error.  w are the statement's words, lw the same in lower case.
ParseWords(w, lw) ==
    IF Len(w) = 2 /\ lw = <<kwSelect, <<"1">> >>
    THEN [op |-> "select1"]
    ELSE IF Len(w) = 4 /\ SubSeq(lw, 1, 3) = <<kwSelect, <<"*">>, kwFrom>> /\ IsIdentifier(w[4])
    THEN [op |-> "select", table |-> w[4], limited |-> FALSE, limit |-> 0]
    ELSE IF Len(w) = 6 /\ SubSeq(lw, 1, 3) = <<kwSelect, <<"*">>, kwFrom>> /\ IsIdentifier(w[4])
            /\ lw[5] = kwLimit /\ IsNumber(w[6])
    THEN [op |-> "select", table |-> w[4], limited |-> TRUE, limit |-> ParseInt(w[6])]
    ELSE IF Len(w) = 7 /\ SubSeq(lw, 1, 2) = <<kwDelete, kwFrom>> /\ IsIdentifier(w[3])
            /\ SubSeq(lw, 4, 7) = <<kwWhere, kwAmount, <<"<">>, <<"0">> >>
    THEN [op |-> "delete", table |-> w[3]]
    ELSE IF Len(w) = 5 /\ SubSeq(lw, 1, 2) = <<kwInsert, kwInto>> /\ IsIdentifier(w[3])
            /\ lw[4] = kwValues /\ w[5] = <<"(","3",",","-","7",")">>
    THEN [op |-> "insert", table |-> w[3], row |-> <<3, -7>>]
    ELSE IF Len(w) = 3 /\ SubSeq(lw, 1, 2) = <<kwDrop, kwTable>> /\ IsIdentifier(w[3])
    THEN [op |-> "drop", table |-> w[3]]
    ELSE IF Len(w) = 4 /\ SubSeq(lw, 1, 2) = <<kwCreate, kwTable>> /\ IsIdentifier(w[3])
            /\ Len(w[4]) >= 3 /\ w[4][1] = "(" /\ w[4][Len(w[4])] = ")"
            /\ IsIdentifier(SubSeq(w[4], 2, Len(w[4]) - 1))
    THEN [op |-> "create", table |-> w[3], cols |-> <<SubSeq(w[4], 2, Len(w[4]) - 1)>>]
    ELSE [op |-> "error"]

ParseSplit(w) == ParseWords(w, LowerAll(w))

SqlParse(stmt) == ParseSplit(SplitWords(stmt))

\* cur.description of a statement that yields no result set (None, which is falsy)
NoDescription == <<>>

\* the two outcomes of a statement: an error, or the new database with the cursor's
\* description (column names; NoDescription without a result set), the rows it yields
\* and the rowcount (-1 for statements that are not INSERT/UPDATE/DELETE)
SqlFail(e) == [ok |-> FALSE, error |-> e]
SqlDone(newdb, descr, rows, rc) ==
    [ok |-> TRUE, db |-> newdb, description |-> descr, rows |-> rows, rowcount |-> rc]

\* DELETE FROM t WHERE amount < 0, c being the position of the column amount in table t
DeleteRows(db, t, c) ==
    IF c = 0 THEN SqlFail(NoSuchColumn(kwAmount))
    ELSE LET Keeps(r) == ~(r[c] < 0)
         IN  SqlDone([db EXCEPT ![t].rows = SelectSeq(@, Keeps)], NoDescription, <<>>,
                     Len(db[t].rows) - Len(SelectSeq(db[t].rows, Keeps)))

\* a parsed statement that names a table, t being the position of that table in db (0: none)
StepOnTable(p, db, t) ==
    IF p.op = "create"
    THEN IF t # 0 THEN SqlFail(TableExists(p.table))
         ELSE SqlDone(Append(db, [name |-> p.table, cols |-> p.cols, rows |-> <<>>]),
                      NoDescription, <<>>, -1)
    ELSE IF t = 0 THEN SqlFail(NoSuchTable(p.table))
    ELSE IF p.op = "select"
    THEN SqlDone(db, db[t].cols, IF p.limited THEN Take(db[t].rows, p.limit) ELSE db[t].rows, -1)
    ELSE IF p.op = "drop"
    THEN SqlDone(RemoveAt(db, t), NoDescription, <<>>, -1)
    ELSE IF p.op = "insert"
    THEN IF Len(db[t].cols) # Len(p.row) THEN SqlFail(ValueCount(p.table))
         ELSE SqlDone([db EXCEPT ![t].rows = Append(@, p.row)], NoDescription, <<>>, 1)
    ELSE DeleteRows(db, t, FindColumn(db[t].cols, kwAmount))

StepParsed(p, db) ==
    IF p.op = "error" THEN SqlFail(SyntaxError)
    ELSE IF p.op = "select1" THEN SqlDone(db, << <<"1">> >>, << <<1>> >>, -1)
    ELSE StepOnTable(p, db, FindTable(db, p.table))

\* what one statement does to a database
SqlStep(stmt, db) == StepParsed(SqlParse(stmt), db)

\* sqlite3.connect(path): a connection sees the file's committed content; `work` is
\* what the connection sees, `disk` what every other connection sees
Connect(content) == [disk |-> content, work |-> content, inTx |-> FALSE]

FirstWordIn(w, kws) == Len(w) >= 1 /\ Lower(w[1]) \in kws

\* the sqlite3 module opens a transaction implicitly before INSERT, UPDATE, DELETE
\* and REPLACE statements only; every other statement runs in the transaction that
\* is open, or in autocommit mode when none is
IsDml(stmt) == FirstWordIn(SplitWords(stmt), {kwInsert, kwUpdate, kwDelete, kwReplace})

\* the connection after a statement with outcome r ran on it, dml telling whether the
\* statement is one that opens a transaction
Executed(conn, r, dml) ==
    IF ~r.ok THEN [raised |-> TRUE, error |-> r.error, conn |-> conn]
    ELSE [raised |-> FALSE,
          conn |-> [disk |-> IF conn.inTx \/ dml THEN conn.disk ELSE r.db,
                    work |-> r.db, inTx |-> conn.inTx \/ dml],
          description |-> r.description, rows |-> r.rows, rowcount |-> r.rowcount]

\* cur.execute(stmt): raises leaving the connection as it was, or runs the statement
CursorExecute(conn, stmt) == Executed(conn, SqlStep(stmt, conn.work), IsDml(stmt))

\* conn.commit()
Commit(conn) == [disk |-> conn.work, work |-> conn.work, inTx |-> FALSE]

\* a close that commits the pending transaction
CloseCommitting(conn) == conn.work

\* conn.close(): a pending transaction is not committed; the file keeps `disk`
Close(conn) == conn.disk

(***************************************************************************)
(* gemini_sql.run_sql_query                                                *)
(***************************************************************************)

\* the three shapes of the returned value, and None (the initial `result`)
DataFrame(rows, columns) == [type |-> "DataFrame", rows |-> rows, columns |-> columns]
StatusString(rowcount) == [type |-> "str", mark |-> "ok", rowcount |-> rowcount]
ErrorString(e) == [type |-> "str", mark |-> "error", message |-> e]
NoneResult == [type |-> "NoneType"]

StripAll(frags) == [i \in DOMAIN frags |-> Strip(frags[i])]

NonEmpty(f) == f # <<>>

\* a split that does not trim the fragments it keeps
StatementsUntrimmed(sql) == SelectSeq(Split(Strip(sql), ";"), NonEmpty)

\* [s.strip() for s in sql.strip().split(";") if s.strip()]
Statements(sql) == SelectSeq(StripAll(Split(Strip(sql), ";")), NonEmpty)

\* a loop that keeps an earlier DataFrame instead of overwriting it
NextResultKeepingFrame(result, x) ==
    IF result.type = "DataFrame" THEN result
    ELSE IF x.description # NoDescription
    THEN DataFrame(x.rows, x.description)
    ELSE StatusString(x.rowcount)

\* lines 56-61: the result one executed statement leaves in `result`
NextResult(result, x) ==
    IF x.description # NoDescription
    THEN DataFrame(x.rows, x.description)
    ELSE StatusString(x.rowcount)

\* an except clause that keeps the result of the statements before the failure
ExceptResultKeepingPrior(result, e) == IF result = NoneResult THEN ErrorString(e) ELSE result

\* lines 64-65: the value returned when a statement raises
ExceptResult(result, e) == ErrorString(e)

\* the for loop from statement i on; `attempted` collects the statements handed to
\* cur.execute, in call order.  RunStep is one iteration, x being what cur.execute did.
RECURSIVE RunFrom(_, _, _, _, _)
RECURSIVE RunStep(_, _, _, _, _, _)
RunStep(statements, i, conn, result, attempted, x) ==
    IF x.raised
    THEN [result |-> ExceptResult(result, x.error), conn |-> x.conn,
          attempted |-> Append(attempted, statements[i]),
          committed |-> FALSE, raised |-> TRUE]
    ELSE RunFrom(statements, i + 1, x.conn, NextResult(result, x),
                 Append(attempted, statements[i]))

RunFrom(statements, i, conn, result, attempted) ==
    IF i > Len(statements)
    THEN [result |-> result, conn |-> Commit(conn), attempted |-> attempted,
          committed |-> TRUE, raised |-> FALSE]
    ELSE RunStep(statements, i, conn, result, attempted, CursorExecute(conn, statements[i]))

run_sql_query(sql, conn) == RunFrom(Statements(sql), 1, conn, NoneResult, <<>>)

(***************************************************************************)
(* gemini_sql.get_db_schema, gemini_sql.create_sqlite_from_file and the    *)
(* cached main.load_schema                                                 *)
(***************************************************************************)

\* the content of a file that is not a SQLite database: every statement on a
\* connection to it raises DatabaseError
NotADatabase == <<[corrupt |-> TRUE]>>

\* PRAGMA table_info(<name>), the name interpolated unquoted: the table's column names,
\* or a syntax error when the name is no bare identifier
TableInfo(t) ==
    IF IsIdentifier(t.name) THEN [ok |-> TRUE, columns |-> t.cols] ELSE [ok |-> FALSE]

\* a failure that hands back the tables read so far
InspectFailedKeeping(schema) == schema

\* lines 45-46: any error inside the try block makes the function return {}
InspectFailed(schema) == <<>>

\* lines 38-44: the loop over the listed tables from table i on, x being what the
\* PRAGMA of table i gave
RECURSIVE InspectFrom(_, _, _)
RECURSIVE InspectTable(_, _, _, _)
InspectTable(tables, i, schema, x) ==
    IF ~x.ok THEN InspectFailed(schema)
    ELSE InspectFrom(tables, i + 1,
                     Append(schema, [table |-> tables[i].name, columns |-> x.columns]))

InspectFrom(tables, i, schema) ==
    IF i > Len(tables) THEN schema
    ELSE InspectTable(tables, i, schema, TableInfo(tables[i]))

\* get_db_schema: list the tables (lines 34-36), then read each table's columns
get_db_schema(conn) ==
    IF conn.work = NotADatabase THEN InspectFailed(<<>>)
    ELSE InspectFrom(conn.work, 1, <<>>)

\* st.cache_data memoizes load_schema per argument: a set of (key, value) entries
CacheHas(cache, path) == \E e \in cache : e.key = path

CacheValue(cache, path) == (CHOOSE e \in cache : e.key = path).value

CacheStore(cache, path, v) ==
    [value |-> v, cache |-> cache \cup {[key |-> path, value |-> v]}, computed |-> TRUE]

\* load_schema(db_path): the memoized value if there is one, else connect, inspect,
\* close and memoize; `computed` tells whether get_db_schema ran
load_schema(cache, path, content) ==
    IF CacheHas(cache, path)
    THEN [value |-> CacheValue(cache, path), cache |-> cache, computed |-> FALSE]
    ELSE CacheStore(cache, path, get_db_schema(Connect(content)))

\* a clear that leaves the stored entries in place
load_schema_clear_nothing(cache) == cache

\* load_schema.clear()
load_schema_clear(cache) == {}

\* os.path.basename
BaseName(filename) ==
    LET slashes == {i \in DOMAIN filename : filename[i] = "/"}
    IN  IF slashes = {} THEN filename
        ELSE SubSeq(filename, (CHOOSE i \in slashes : \A j \in slashes : j <= i) + 1, Len(filename))

\* os.path.splitext: the extension starts at the last dot of the base name, unless
\* that dot is the base name's first character
SplitExt(filename) ==
    LET start == Len(filename) - Len(BaseName(filename)) + 1
        dots == {i \in (start + 1)..Len(filename) : filename[i] = "."}
        d == CHOOSE i \in dots : \A j \in dots : j <= i
    IN  IF dots = {} THEN <<filename, <<>> >>
        ELSE <<SubSeq(filename, 1, d - 1), SubSeq(filename, d, Len(filename))>>

extCsv == <<".","c","s","v">>
extXls == <<".","x","l","s">>
extXlsx == <<".","x","l","s","x">>
extDb == <<".","d","b">>

\* the name of the file tempfile.NamedTemporaryFile(delete=False, suffix=".db") creates
\* inside create_sqlite_from_file
IngestPath == "/tmp/tmpi.db"

\* create_sqlite_from_file: the database holding the one table df.to_sql writes, or
\* the ValueError for an extension that is neither .csv nor .xls/.xlsx.  `files` are
\* the files the call creates on disk: the temporary file is created, and a connection
\* opened on it, before the extension is looked at.
create_sqlite_from_file(file, filename) ==
    LET ext == Lower(SplitExt(filename)[2])
        table_name == SplitExt(BaseName(filename))[1]
    IN  IF ext = extCsv \/ ext \in {extXls, extXlsx}
        THEN [raised |-> FALSE,
              db |-> <<[name |-> table_name, cols |-> file.columns, rows |-> file.rows]>>,
              table_name |-> table_name,
              files |-> {IngestPath}]
        ELSE [raised |-> TRUE, files |-> {IngestPath}]

(***************************************************************************)
(* The session: st.session_state, the working database file and the cache  *)
(***************************************************************************)

VARIABLES
    db_path,          \* st.session_state.db_path
    disk,             \* committed content of the file at db_path
    schema,           \* st.session_state.schema
    cache,            \* the st.cache_data store of load_schema
    chat_history,     \* st.session_state.chat_history
    action_history,   \* st.session_state.action_history
    asked,            \* number of questions submitted so far
    last,             \* what the most recent script run did (observation only)
    files,            \* the database files the session has created on disk
    inspected,        \* runs of get_db_schema since the cache was last cleared (observation)
    reloads,          \* clear-and-reload of the schema performed so far (observation)
    rIn,              \* single-function runs: the input handed to the function
    rOut              \* single-function runs: what it returned

vars == <<db_path, disk, schema, cache, chat_history, action_history, asked, last, files,
          inspected, reloads, rIn, rOut>>

NoPath == "None"
TempPath == "/tmp/tmpw.db"

\* number of questions a session asks
MaxQuestions == 2

colId == <<"i","d">>
colAmount == <<"a","m","o","u","n","t">>
colName == <<"N","a","m","e">>
tblOrders == <<"o","r","d","e","r","s">>
tblGenre == <<"G","e","n","r","e">>

\* more rows than the preview query returns: one negative amount, then positive ones
ManyOrders == [i \in 1..101 |-> <<i, IF i = 1 THEN -5 ELSE i>>]

\* the files a user uploads: a CSV of orders, a database with two tables (its orders
\* table longer than a preview), an empty database
Uploads ==
    { [name |-> <<"o","r","d","e","r","s",".","c","s","v">>,
       columns |-> <<colId, colAmount>>, rows |-> << <<1, -5>>, <<2, 10>> >>],
      [name |-> <<"s","t","o","r","e",".","d","b">>,
       db |-> << [name |-> tblOrders, cols |-> <<colId, colAmount>>, rows |-> ManyOrders],
                 [name |-> tblGenre, cols |-> <<colName>>, rows |-> <<>>] >>],
      [name |-> <<"e","m","p","t","y",".","d","b">>, db |-> <<>>] }

\* SELECT * FROM orders LIMIT 100
sqlSelect == <<"S","E","L","E","C","T"," ","*"," ","F","R","O","M"," ","o","r","d","e","r","s"," ","L","I","M","I","T"," ","1","0","0">>
\* DELETE FROM orders WHERE amount < 0
sqlDelete == <<"D","E","L","E","T","E"," ","F","R","O","M"," ","o","r","d","e","r","s"," ","W","H","E","R","E"," ","a","m","o","u","n","t"," ","<"," ","0">>
\* DROP TABLE orders
sqlDrop == <<"D","R","O","P"," ","T","A","B","L","E"," ","o","r","d","e","r","s">>
\* CREATE TABLE Genre (Name)
sqlCreate == <<"C","R","E","A","T","E"," ","T","A","B","L","E"," ","G","e","n","r","e"," ","(","N","a","m","e",")">>
\* SELEC (not a statement)
sqlBad == <<"S","E","L","E","C">>

\* INSERT INTO orders VALUES (3,-7)
sqlInsert == <<"I","N","S","E","R","T"," ","I","N","T","O"," ","o","r","d","e","r","s"," ","V","A","L","U","E","S"," ","(","3",",","-","7",")">>

StatementPool == {sqlSelect, sqlDelete, sqlInsert, sqlDrop, sqlCreate, sqlBad}

\* batches of several statements: a mutation followed by a SELECT, a SELECT followed by
\* a mutation, failures after and before statements that succeed
Batches ==
    { <<sqlDelete, sqlSelect>>, <<sqlCreate, sqlSelect>>, <<sqlSelect, sqlDelete>>,
      <<sqlDelete, sqlBad>>, <<sqlDrop, sqlBad>>, <<sqlInsert, sqlBad>>,
      <<sqlBad, sqlDelete>>, <<sqlDrop, sqlCreate>>,
      <<sqlDelete, sqlBad, sqlSelect>>, <<sqlCreate, sqlDelete, sqlBad>> }

RECURSIVE JoinBatch(_)
JoinBatch(batch) ==
    IF batch = <<>> THEN <<>>
    ELSE batch[1] \o <<";">> \o (IF Len(batch) > 1 THEN <<" ">> ELSE <<>>) \o JoinBatch(Tail(batch))

\* what the model may answer: one statement or a batch, each statement terminated by a
\* semicolon, and answers that hold no statement at all
Responses ==
    {JoinBatch(<<a>>) : a \in StatementPool}
    \cup {JoinBatch(b) : b \in Batches}
    \cup {<<>>, <<" ", "\n">>, <<";">>, <<" ", ";", " ", ";">>}

Questions == {"show all orders"}

(***************************************************************************)
(* main.py: one script run per user event                                  *)
(***************************************************************************)

Loaded(l) == [schema |-> l.value, cache |-> l.cache, computed |-> l.computed]

\* a script that inspects the database afresh on every run
LoadEveryRun(sch, cch, path, content) ==
    Loaded(load_schema(load_schema_clear(cch), path, content))

\* lines 61-62: the schema is loaded only while the session holds none
LoadOnce(sch, cch, path, content) ==
    IF sch = <<>>
    THEN Loaded(load_schema(cch, path, content))
    ELSE [schema |-> sch, cache |-> cch, computed |-> FALSE]

\* build_prompt: the fixed instructions around one line per table of the schema
build_prompt(sch) ==
    [instructions |-> "You are an expert at writing SQL queries.",
     schema_desc |-> [i \in DOMAIN sch |-> <<sch[i].table, sch[i].columns>>]]

\* get_gemini_response returns response.text.strip()
get_gemini_response(text) == Strip(text)

\* f"SELECT * FROM {affected_table} LIMIT 100"
PreviewSql(table) ==
    <<"S","E","L","E","C","T"," ","*"," ","F","R","O","M"," ">> \o table
        \o <<" ","L","I","M","I","T"," ","1","0","0">>

\* isinstance(result, pd.DataFrame)
IsDataFrame(result) == result.type = "DataFrame"

\* result.empty
IsEmptyFrame(result) == result.rows = <<>> \/ result.columns = <<>>

\* a test that takes every string for a success
ResultIsStr(result) == result.type = "str"

\* result.startswith of the success mark; None has no such method
ResultIsOk(result) == result.type = "str" /\ result.mark = "ok"

\* sql_query.strip().lower().startswith("select")
StartsWithSelect(sql_query) == StartsWith(Lower(Strip(sql_query)), kwSelect)

\* f"Executed `{sql_query.split()[0].upper()}` on `{affected_table or 'unknown'}`."
ActionMessage(sql_query, affected_table) ==
    [verb |-> Upper(SplitWords(sql_query)[1]),
     table |-> IF affected_table # None THEN affected_table ELSE <<"u","n","k","n","o","w","n">>]

\* lines 151-154: the entry is appended, the cache cleared and the schema loaded again
Logged(sql_query, affected_table, result, content, log, shown, reload) ==
    [crashed |-> FALSE, result |-> result, disk |-> content,
     schema |-> reload.value, cache |-> reload.cache,
     log |-> Append(log, ActionMessage(sql_query, affected_table)),
     reloaded |-> TRUE, previewed |-> shown,
     inspections |-> IF reload.computed THEN 1 ELSE 0]

\* a reload that is not logged
ReloadWithoutLog(sql_query, affected_table, result, content, path, sch, cch, log, shown) ==
    IF ~StartsWithSelect(sql_query)
    THEN [Logged(sql_query, affected_table, result, content, log, shown,
                 load_schema(load_schema_clear(cch), path, content)) EXCEPT !.log = log]
    ELSE [crashed |-> FALSE, result |-> result, disk |-> content, schema |-> sch,
          cache |-> cch, log |-> log, reloaded |-> FALSE, previewed |-> shown,
          inspections |-> 0]

\* lines 148-154: the action log entry and the schema reload of a batch that does
\* not start with SELECT
LogAndReload(sql_query, affected_table, result, content, path, sch, cch, log, shown) ==
    IF ~StartsWithSelect(sql_query)
    THEN Logged(sql_query, affected_table, result, content, log, shown,
                load_schema(load_schema_clear(cch), path, content))
    ELSE [crashed |-> FALSE, result |-> result, disk |-> content, schema |-> sch,
          cache |-> cch, log |-> log, reloaded |-> FALSE, previewed |-> shown,
          inspections |-> 0]

\* a preview that replaces the result also when it has no rows
ShowPreviewAlways(sql_query, affected_table, result, preview, path, sch, cch, log) ==
    IF IsDataFrame(preview.result)
    THEN LogAndReload(sql_query, affected_table, preview.result, preview.conn.disk, path,
                      sch, cch, log, TRUE)
    ELSE LogAndReload(sql_query, affected_table, result, preview.conn.disk, path,
                      sch, cch, log, FALSE)

\* lines 142-146: the preview replaces the result when it is a non-empty DataFrame.
\* The preview's connection is never closed; run_sql_query has committed on it.
ShowPreview(sql_query, affected_table, result, preview, path, sch, cch, log) ==
    IF IsDataFrame(preview.result) /\ ~IsEmptyFrame(preview.result)
    THEN LogAndReload(sql_query, affected_table, preview.result, preview.conn.disk, path,
                      sch, cch, log, TRUE)
    ELSE LogAndReload(sql_query, affected_table, result, preview.conn.disk, path,
                      sch, cch, log, FALSE)

\* lines 136-141: the preview query of the affected table, when one is found
PreviewAffected(sql_query, affected_table, result, content, path, sch, cch, log) ==
    IF affected_table # None
    THEN ShowPreview(sql_query, affected_table, result,
                     run_sql_query(PreviewSql(affected_table), Connect(content)),
                     path, sch, cch, log)
    ELSE LogAndReload(sql_query, affected_table, result, content, path, sch, cch, log, FALSE)

\* lines 128-159: what the script does with the executor's result.  `crashed` is the
\* AttributeError of calling startswith on None, which ends the script run.
HandleResult(sql_query, result, content, path, sch, cch, log) ==
    LET same == [crashed |-> FALSE, result |-> result, disk |-> content, schema |-> sch,
                 cache |-> cch, log |-> log, reloaded |-> FALSE, previewed |-> FALSE,
                 inspections |-> 0]
    IN  IF IsDataFrame(result) THEN same
        ELSE IF result.type = "NoneType" THEN [same EXCEPT !.crashed = TRUE]
        ELSE IF ResultIsOk(result)
        THEN PreviewAffected(sql_query, extract_table_name(sql_query), result, content, path,
                             sch, cch, log)
        ELSE same

NoRun == [result |-> NoneResult, attempted |-> <<>>, committed |-> FALSE, raised |-> FALSE,
          work |-> <<>>]

Idle == [kind |-> "none"]

Init ==
    /\ db_path = NoPath
    /\ disk = <<>>
    /\ schema = <<>>
    /\ cache = {}
    /\ chat_history = <<>>
    /\ action_history = <<>>
    /\ asked = 0
    /\ last = Idle
    /\ files = {}
    /\ inspected = 0
    /\ reloads = 0
    /\ rIn = <<>>
    /\ rOut = [ran |-> FALSE]

\* a run of the Schema Inspector counts as one
Count(flag) == IF flag THEN 1 ELSE 0

\* lines 44-62: the first script run with a file in the uploader.  The script creates
\* its own temporary file for the session; for a CSV or Excel upload
\* create_sqlite_from_file creates another one, whose content is copied over.
Upload(file) ==
    /\ db_path = NoPath
    /\ \E ext \in {Lower(SplitExt(file.name)[2])} :
       \E made \in {IF ext \in {extCsv, extXls, extXlsx}
                     THEN create_sqlite_from_file(file, file.name)
                     ELSE [raised |-> FALSE, db |-> <<>>, files |-> {}]} :
       \E content \in {IF ext = extDb THEN file.db ELSE made.db} :
       \E pre \in {LoadOnce(schema, cache, TempPath, content)} :
           /\ db_path' = TempPath
           /\ disk' = content
           /\ schema' = pre.schema
           /\ cache' = pre.cache
           /\ files' = files \cup {TempPath} \cup made.files
           /\ inspected' = inspected + Count(pre.computed)
           /\ last' = [kind |-> "upload", file |-> file.name]
    /\ UNCHANGED <<chat_history, action_history, asked, reloads, rIn, rOut>>

\* lines 44-62 in a later script run without a question (another file put in the
\* uploader, a widget touched): the path is set, so nothing is ingested
Rerun(file) ==
    /\ db_path # NoPath
    /\ \E pre \in {LoadOnce(schema, cache, db_path, disk)} :
           /\ schema' = pre.schema
           /\ cache' = pre.cache
           /\ inspected' = inspected + Count(pre.computed)
           /\ last' = [kind |-> "rerun", file |-> file.name,
                       structureChanged |-> last.kind \in {"ask", "rerun"} /\ last.structureChanged]
    /\ UNCHANGED <<db_path, disk, chat_history, action_history, asked, files, reloads, rIn, rOut>>

\* whether two databases differ in their tables or columns
SameStructure(d1, d2) ==
    [i \in DOMAIN d1 |-> <<d1[i].name, d1[i].cols>>] = [i \in DOMAIN d2 |-> <<d2[i].name, d2[i].cols>>]

\* observation: whether some earlier question of the session left the database with a
\* changed structure
ChangedSoFar == last.kind \in {"ask", "rerun"} /\ last.structureChanged

\* lines 112-166: a script run with a question, the model call returning `text`
Ask(question, text) ==
    /\ db_path # NoPath
    /\ asked < MaxQuestions
    /\ \E pre \in {LoadOnce(schema, cache, db_path, disk)}, sql_query \in {get_gemini_response(text)} :
       \E run \in {run_sql_query(sql_query, Connect(disk))} :
       \E h \in {HandleResult(sql_query, run.result, Close(run.conn), db_path, pre.schema,
                              pre.cache, action_history)} :
           /\ disk' = h.disk
           /\ schema' = h.schema
           /\ cache' = h.cache
           /\ action_history' = h.log
           /\ inspected' = IF h.reloaded THEN h.inspections
                           ELSE inspected + Count(pre.computed)
           /\ reloads' = reloads + Count(h.reloaded)
           /\ chat_history' = IF h.crashed THEN chat_history
                              ELSE Append(chat_history,
                                          [user |-> question, sql |-> sql_query, result |-> h.result])
           /\ last' = [kind |-> "ask",
                       outcome |-> IF h.crashed THEN "crashed" ELSE "done",
                       question |-> question,
                       sql |-> sql_query,
                       prompt |-> build_prompt(pre.schema),
                       diskBefore |-> disk,
                       changedBefore |-> ChangedSoFar,
                       structureChanged |-> ChangedSoFar \/ ~SameStructure(disk, h.disk),
                       run |-> [result |-> run.result, attempted |-> run.attempted,
                                committed |-> run.committed, raised |-> run.raised,
                                work |-> run.conn.work],
                       result |-> h.result,
                       appended |-> Len(h.log) - Len(action_history),
                       closed |-> Close(run.conn),
                       reloaded |-> h.reloaded,
                       previewed |-> h.previewed]
    /\ asked' = asked + 1
    /\ UNCHANGED <<db_path, files, rIn, rOut>>

\* lines 112-119 when generate_content raises: the exception leaves the script run
AskRemoteFailure(question) ==
    /\ db_path # NoPath
    /\ asked < MaxQuestions
    /\ \E pre \in {LoadOnce(schema, cache, db_path, disk)} :
           /\ schema' = pre.schema
           /\ cache' = pre.cache
           /\ inspected' = inspected + Count(pre.computed)
           /\ last' = [kind |-> "ask", outcome |-> "remote_error", question |-> question,
                       prompt |-> build_prompt(pre.schema), diskBefore |-> disk,
                       changedBefore |-> ChangedSoFar, structureChanged |-> ChangedSoFar,
                       run |-> NoRun]
    /\ asked' = asked + 1
    /\ UNCHANGED <<db_path, disk, chat_history, action_history, files, reloads, rIn, rOut>>

Next ==
    \/ \E file \in Uploads : Upload(file)
    \/ \E file \in Uploads : Rerun(file)
    \/ \E q \in Questions, text \in Responses : Ask(q, text)
    \/ \E q \in Questions : AskRemoteFailure(q)

Spec == Init /\ [][Next]_vars

(***************************************************************************)
(* extract_table_name on its own, over a family of SQL texts               *)
(***************************************************************************)

\* DELETE FROM Customer WHERE Country='Germany'
exDelete == <<"D","E","L","E","T","E"," ","F","R","O","M"," ","C","u","s","t","o","m","e","r"," ","W","H","E","R","E"," ","C","o","u","n","t","r","y","=","'","G","e","r","m","a","n","y","'">>
\* INSERT INTO Genre (Name) VALUES ('Synthwave')
exInsert == <<"I","N","S","E","R","T"," ","I","N","T","O"," ","G","e","n","r","e"," ","(","N","a","m","e",")"," ","V","A","L","U","E","S"," ","(","'","S","y","n","t","h","w","a","v","e","'",")">>
\* SELECT * FROM Artist
exSelect == <<"S","E","L","E","C","T"," ","*"," ","F","R","O","M"," ","A","r","t","i","s","t">>

ResolverPrefixes == {<<>>, <<"D","E","L","E","T","E"," ">>, <<"s","t","a","b","l","e"," ">>, <<" ","(">>}
ResolverKeywords == {<<"F","R","O","M">>, <<"f","r","o","m">>, <<"I","n","t","o">>, <<"U","P","D","A","T","E">>,
                     <<"T","a","b","l","e">>, <<"F","O","R","M">>}
ResolverGaps == {<<>>, <<" ">>, <<" ", "\n">>}
ResolverNames == {<<>>, <<"C","u","s","t","o","m","e","r">>, <<"o","r","d","e","r","s">>, <<"_","t","1">>,
                  <<"9","x">>, <<"\"","G","\"">>}
ResolverSuffixes == {<<>>, <<" ","W","H","E","R","E"," ","x","=","1">>, <<"(","N","a","m","e",")">>}

ResolverInputs ==
    {exDelete, exInsert, exSelect}
    \cup {p \o k \o g \o n \o s : p \in ResolverPrefixes, k \in ResolverKeywords, g \in ResolverGaps,
                                 n \in ResolverNames, s \in ResolverSuffixes}

ResolverInit ==
    /\ db_path = NoPath
    /\ disk = <<>>
    /\ schema = <<>>
    /\ cache = {}
    /\ chat_history = <<>>
    /\ action_history = <<>>
    /\ asked = 0
    /\ last = Idle
    /\ files = {}
    /\ inspected = 0
    /\ reloads = 0
    /\ rIn \in ResolverInputs
    /\ rOut = [ran |-> FALSE]

Resolve ==
    /\ ~rOut.ran
    /\ rOut' = [ran |-> TRUE, value |-> extract_table_name(rIn)]
    /\ UNCHANGED <<db_path, disk, schema, cache, chat_history, action_history, asked, last,
                   files, inspected, reloads, rIn>>

ResolverNext == Resolve

ResolverSpec == ResolverInit /\ [][ResolverNext]_vars

(***************************************************************************)
(* create_sqlite_from_file followed by get_db_schema, over a family of     *)
(* uploaded files                                                          *)
(***************************************************************************)

\* file names: recognised extensions in either case, base names that are no SQL
\* identifiers, a directory part, unrecognised extensions, no extension
IngestNames ==
    {<<"o","r","d","e","r","s",".","c","s","v">>,
     <<"S","a","l","e","s",".","C","S","V">>,
     <<"d","a","t","a",".","x","l","s","x">>,
     <<"o","l","d",".","x","l","s">>,
     <<"m","y"," ","d","a","t","a",".","c","s","v">>,
     <<"s","a","l","e","s","-","2","0","2","4",".","c","s","v">>,
     <<"/","t","m","p","/","u","p","/","o","r","d","e","r","s",".","c","s","v">>,
     <<"n","o","t","e","s",".","t","x","t">>,
     <<"r","e","p","o","r","t",".","p","d","f">>,
     <<"s","t","o","r","e",".","d","b">>,
     <<"R","E","A","D","M","E">>,
     <<".","c","s","v">>,
     <<"a","r","c","h","i","v","e",".","t","a","r",".","g","z">>}

IngestColumns == {<<colId, colAmount>>, <<colAmount, colId>>, <<colName, colId>>}

IngestRows == {<<>>, << <<1, -5>> >>, << <<1, -5>>, <<2, 10>> >>}

IngestFiles ==
    {[name |-> n, columns |-> c, rows |-> r] : n \in IngestNames, c \in IngestColumns, r \in IngestRows}

IngestInit ==
    /\ db_path = NoPath
    /\ disk = <<>>
    /\ schema = <<>>
    /\ cache = {}
    /\ chat_history = <<>>
    /\ action_history = <<>>
    /\ asked = 0
    /\ last = Idle
    /\ files = {}
    /\ inspected = 0
    /\ reloads = 0
    /\ rIn \in IngestFiles
    /\ rOut = [ran |-> FALSE]

\* the file is ingested and, when that succeeds, the schema of the database read
Ingest ==
    /\ ~rOut.ran
    /\ \E made \in {create_sqlite_from_file(rIn, rIn.name)} :
           /\ files' = files \cup made.files
           /\ rOut' = [ran |-> TRUE, value |-> made,
                       schema |-> IF made.raised THEN <<>> ELSE get_db_schema(Connect(made.db))]
    /\ UNCHANGED <<db_path, disk, schema, cache, chat_history, action_history, asked, last,
                   inspected, reloads, rIn>>

IngestNext == Ingest

IngestSpec == IngestInit /\ [][IngestNext]_vars

(***************************************************************************)
(* get_db_schema on its own, over a family of databases                    *)
(***************************************************************************)

tblLineItems == <<"l","i","n","e"," ","i","t","e","m","s">>
tblSales2024 == <<"s","a","l","e","s","-","2","0","2","4">>
tblCustomers == <<"c","u","s","t","o","m","e","r","s">>

\* tables whose names are identifiers and tables whose names are not
SchemaTables ==
    { [name |-> tblOrders, cols |-> <<colId, colAmount>>, rows |-> << <<1, -5>> >>],
      [name |-> tblGenre, cols |-> <<colName>>, rows |-> <<>>],
      [name |-> tblCustomers, cols |-> <<colName, colId>>, rows |-> <<>>],
      [name |-> tblLineItems, cols |-> <<colId>>, rows |-> <<>>],
      [name |-> tblSales2024, cols |-> <<colAmount, colId>>, rows |-> <<>>] }

\* most tables a database of the family holds
MaxTables == 3

\* databases of up to MaxTables tables with distinct names, and a file that is no database
SchemaInputs ==
    {NotADatabase}
    \cup UNION {{d \in [1..n -> SchemaTables] : \A i, j \in 1..n : i # j => d[i] # d[j]} :
                n \in 0..MaxTables}

SchemaInit ==
    /\ db_path = NoPath
    /\ disk = <<>>
    /\ schema = <<>>
    /\ cache = {}
    /\ chat_history = <<>>
    /\ action_history = <<>>
    /\ asked = 0
    /\ last = Idle
    /\ files = {}
    /\ inspected = 0
    /\ reloads = 0
    /\ rIn \in SchemaInputs
    /\ rOut = [ran |-> FALSE]

Inspect ==
    /\ ~rOut.ran
    /\ rOut' = [ran |-> TRUE, value |-> get_db_schema(Connect(rIn))]
    /\ UNCHANGED <<db_path, disk, schema, cache, chat_history, action_history, asked, last,
                   files, inspected, reloads, rIn>>

SchemaNext == Inspect

SchemaSpec == SchemaInit /\ [][SchemaNext]_vars

(***************************************************************************)
(* The Recent Actions view of the sidebar, over action logs of any length   *)
(***************************************************************************)

\* the number of entries the sidebar shows
RecentShown == 10

\* s[-n:]
LastN(s, n) == IF Len(s) <= n THEN s ELSE SubSeq(s, Len(s) - n + 1, Len(s))

\* a view in the order of the log
NotReversed(s) == s

\* reversed(s)
Reversed(s) == [i \in 1..Len(s) |-> s[Len(s) + 1 - i]]

\* lines 199-203: the entries written under "Recent Actions", top to bottom
RecentActions(log) == Reversed(LastN(log, RecentShown))

\* longest action log
MaxActions == 12

ActionEntries == {ActionMessage(sqlDelete, tblOrders), ActionMessage(sqlDrop, None)}

ActionsInit ==
    /\ db_path = TempPath
    /\ disk = <<>>
    /\ schema = <<>>
    /\ cache = {}
    /\ chat_history = <<>>
    /\ action_history = <<>>
    /\ asked = 0
    /\ last = Idle
    /\ files = {TempPath}
    /\ inspected = 0
    /\ reloads = 0
    /\ rIn = <<>>
    /\ rOut = [ran |-> FALSE]

\* an entry is appended (line 151) and the sidebar of that script run rendered
LogAction(entry) ==
    /\ Len(action_history) < MaxActions
    /\ action_history' = Append(action_history, entry)
    /\ rOut' = [ran |-> TRUE, value |-> RecentActions(action_history')]
    /\ UNCHANGED <<db_path, disk, schema, cache, chat_history, asked, last, files, inspected,
                   reloads, rIn>>

ActionsNext == \E entry \in ActionEntries : LogAction(entry)

ActionsSpec == ActionsInit /\ [][ActionsNext]_vars

(***************************************************************************)
(* Properties                                                              *)
(***************************************************************************)

\* A script run that processed a question whose model call returned.
Answered == last.kind = "ask" /\ last.outcome # "remote_error"

\* The fragments of a text, stated on positions instead of by splitting: a fragment
\* starts at a character that is neither whitespace nor ";" and is preceded, whitespace
\* apart, by ";" or by the start of the text; it ends at such a character followed,
\* whitespace apart, by ";" or by the end of the text.
IsFragmentChar(c) == ~IsSpace(c) /\ c # ";"

FragmentStarts(t) ==
    {a \in DOMAIN t : IsFragmentChar(t[a])
                      /\ (SkipSpacesBack(t, a - 1) = 0 \/ t[SkipSpacesBack(t, a - 1)] = ";")}

FragmentEnds(t) ==
    {e \in DOMAIN t : IsFragmentChar(t[e])
                      /\ (SkipSpaces(t, e + 1) > Len(t) \/ t[SkipSpaces(t, e + 1)] = ";")}

\* the k-th smallest element of a set of numbers
Nth(S, k) == CHOOSE x \in S : Cardinality({y \in S : y < x}) = k - 1

FragmentsBetween(t, starts, ends) ==
    [k \in 1..Cardinality(starts) |-> SubSeq(t, Nth(starts, k), Nth(ends, k))]

TextFragments(t) == FragmentsBetween(t, FragmentStarts(t), FragmentEnds(t))

\* Running the statements of a batch one after the other on a database, up to and
\* including the first that fails: `fail` is the index of that statement (0 when all
\* succeed), `step` what the last statement run did, `db` the database the successful
\* statements leave.
RECURSIVE Replay(_, _, _, _)
RECURSIVE ReplayStep(_, _, _, _)
ReplayStep(f, i, db, s) ==
    IF ~s.ok THEN [fail |-> i, step |-> s, db |-> db]
    ELSE Replay(f, i + 1, s.db, s)

Replay(f, i, db, prev) ==
    IF i > Len(f) THEN [fail |-> 0, step |-> prev, db |-> db]
    ELSE ReplayStep(f, i, db, SqlStep(f[i], db))

ReplayAll(f, db) == Replay(f, 1, db, SqlFail(SyntaxError))

\* the number of statements among the first n of f that precede the first INSERT,
\* UPDATE, DELETE or REPLACE statement
RECURSIVE AutocommitPrefix(_, _, _)
AutocommitPrefix(f, i, n) ==
    IF i > n \/ IsDml(f[i]) THEN i - 1 ELSE AutocommitPrefix(f, i + 1, n)

IsMutating(stmt) == SqlParse(stmt).op \in {"delete", "insert", "drop", "create"}

IsSelect(stmt) == SqlParse(stmt).op \in {"select", "select1"}

\* C1: a question whose batch executes successfully and starts with a mutating statement
\* ends with the Tabular result of a final SELECT, appends exactly one action-log entry
\* naming the verb and the table, and reloads the cached schema.
C1_MutatingBatchLoggedAndReloaded ==
    (Answered /\ ~last.run.raised)
    => \A f \in {TextFragments(last.sql)} :
        (f # <<>> /\ IsMutating(f[1]))
        => /\ IsSelect(f[Len(f)]) => (IsDataFrame(last.result) /\ last.result = last.run.result)
           /\ last.appended = 1
           /\ last.reloaded
           /\ action_history[Len(action_history)].verb = Upper(SplitWords(f[1])[1])
           /\ Lower(action_history[Len(action_history)].table) = Lower(SqlParse(f[1]).table)

\* C2: once an earlier question has changed the structure of the working database, the
\* schema a later question's prompt is built from is the database's actual structure.
C2_PromptSchemaIsCurrent ==
    (last.kind = "ask" /\ last.changedBefore)
    => last.prompt = build_prompt(get_db_schema(Connect(last.diskBefore)))

C4_AlwaysAResult ==
    Answered => (last.run.result.type \in {"DataFrame", "str"} /\ last.outcome = "done")

C6_LastStatementResult ==
    (Answered /\ ~last.run.raised)
    => \A f \in {TextFragments(last.sql)} :
        f # <<>>
        => \A r \in {ReplayAll(f, last.diskBefore)} :
            /\ r.fail = 0
            /\ last.run.result = IF r.step.description # NoDescription
                                 THEN DataFrame(r.step.rows, r.step.description)
                                 ELSE StatusString(r.step.rowcount)

\* C6 witness: SELECT then DELETE; the result is the DELETE's status (one row), the
\* SELECT's rows are gone.
C6_Witness ==
    /\ Answered /\ ~last.run.raised
    /\ last.run.attempted = <<sqlSelect, sqlDelete>>
    /\ last.run.result = StatusString(1)

\* C7: when the k-th statement raises, exactly statements 1..k were handed to the
\* engine, the executor did not commit, and the result is the error string carrying
\* the engine's error, whatever statements 1..k-1 had produced.
C7_FailureStopsBatch ==
    Answered
    => \A f \in {TextFragments(last.sql)} :
       \A r \in {ReplayAll(f, last.diskBefore)} :
        r.fail # 0
        => /\ last.run.raised
           /\ last.run.attempted = SubSeq(f, 1, r.fail)
           /\ ~last.run.committed
           /\ last.run.result = ErrorString(r.step.error)

\* C7 witness: DELETE succeeded, the second statement raised, the third never ran.
C7_Witness ==
    /\ Answered /\ last.run.raised
    /\ TextFragments(last.sql) = <<sqlDelete, sqlBad, sqlSelect>>
    /\ last.run.attempted = <<sqlDelete, sqlBad>>
    /\ last.run.result = ErrorString(SyntaxError)

\* The identifier after the first keyword FROM, INTO, UPDATE or TABLE of a text,
\* keywords in any case, as the text writes the identifier.
KeywordAt(t, i) ==
    \E a \in DOMAIN ReKeywords :
        /\ i + Len(ReKeywords[a]) - 1 <= Len(t)
        /\ Lower(SubSeq(t, i, i + Len(ReKeywords[a]) - 1)) = ReKeywords[a]
        /\ SkipSpaces(t, i + Len(ReKeywords[a])) > i + Len(ReKeywords[a])
        /\ SkipSpaces(t, i + Len(ReKeywords[a])) <= Len(t)
        /\ IsIdentStart(t[SkipSpaces(t, i + Len(ReKeywords[a]))])

KeywordLen(t, i) ==
    Len(ReKeywords[CHOOSE a \in DOMAIN ReKeywords :
                       /\ i + Len(ReKeywords[a]) - 1 <= Len(t)
                       /\ Lower(SubSeq(t, i, i + Len(ReKeywords[a]) - 1)) = ReKeywords[a]])

IdentifierAsWritten(t) ==
    IF \A i \in DOMAIN t : ~KeywordAt(t, i) THEN None
    ELSE LET i == CHOOSE x \in DOMAIN t : KeywordAt(t, x) /\ \A y \in 1..(x - 1) : ~KeywordAt(t, y)
             k == SkipSpaces(t, i + KeywordLen(t, i))
         IN  SubSeq(t, k, IdentEnd(t, k) - 1)

\* C8: extract_table_name returns the identifier after the first keyword as the text
\* writes it, and None when no keyword is followed by an identifier.
C8_ResolverReturnsIdentifierAsWritten ==
    rOut.ran => rOut.value = IdentifierAsWritten(rIn)

\* C9: a question whose model call fails executes nothing and changes neither the
\* working database, the session schema, the schema cache, the chat history nor the
\* action log.
C9_RemoteFailureChangesNothing ==
    [][(last'.kind = "ask" /\ last'.outcome = "remote_error" /\ asked' = asked + 1)
       => /\ disk' = disk
          /\ schema' = schema
          /\ cache' = cache
          /\ chat_history' = chat_history
          /\ action_history' = action_history
          /\ last'.run.attempted = <<>>]_vars

\* C9 witness: the model call failed after an earlier question had left the session
\* schema behind the database.
C9_Witness ==
    /\ last.kind = "ask" /\ last.outcome = "remote_error"
    /\ chat_history # <<>>
    /\ schema # get_db_schema(Connect(disk))

\* C10: a question appends at most one action-log entry and leaves the earlier ones
\* alone; it appends one only if its batch ran without a failure, was committed and
\* holds a statement other than SELECT.
C10_LogOnlySuccessfulMutations ==
    [][(last'.kind = "ask" /\ asked' = asked + 1)
       => /\ Len(action_history') <= Len(action_history) + 1
          /\ SubSeq(action_history', 1, Len(action_history)) = action_history
          /\ action_history' # action_history
               => /\ last'.outcome = "done"
                  /\ ~last'.run.raised
                  /\ last'.run.committed
                  /\ \E f \in {TextFragments(last'.sql)} :
                         \E i \in DOMAIN f : IsMutating(f[i])]_vars

\* C10 witness: a DELETE was logged, and a later failing batch left the log alone.
C10_Witness ==
    /\ Answered /\ last.run.raised /\ last.appended = 0
    /\ Len(action_history) = 1
    /\ action_history[1].verb = <<"D","E","L","E","T","E">>

\* C11: the chat history is append-only: a question whose model call returned appends
\* exactly one entry (question, generated SQL, result) at the end, also when the SQL
\* fails, and no other step changes the history.
C11_ChatAppendOnly ==
    [][IF last'.kind = "ask" /\ asked' = asked + 1 /\ last'.outcome # "remote_error"
       THEN chat_history' = Append(chat_history, [user |-> last'.question, sql |-> last'.sql,
                                                  result |-> last'.result])
       ELSE chat_history' = chat_history]_vars

\* whether a file name ends, in either case, with one of the given extensions
EndsWithExt(name, exts) ==
    \E e \in exts : /\ Len(name) > Len(e)
                    /\ Lower(SubSeq(name, Len(name) - Len(e) + 1, Len(name))) = e
                    /\ name[Len(name) - Len(e)] # "/"

\* C12: ingesting a file whose extension is none of the recognized types fails and
\* leaves no database file on disk.
C12_UnsupportedLeavesNothing ==
    (rOut.ran /\ ~EndsWithExt(rIn.name, {extCsv, extXls, extXlsx, extDb}))
    => (rOut.value.raised /\ files = {})

\* C13: once set by the first upload the session's database path is never reassigned,
\* and the session has created exactly one database file on disk, the one at that path.
C13_OneStableDatabase ==
    [][/\ db_path # NoPath => db_path' = db_path
       /\ db_path' # NoPath => files' = {db_path'}]_vars

\* the largest element of a non-empty set of numbers
Max(S) == CHOOSE x \in S : \A y \in S : y <= x

\* a file's base name without its extension: what follows the last "/" and precedes
\* the last "."
Stem(name) ==
    SubSeq(name,
           1 + Max({0} \cup {i \in DOMAIN name : name[i] = "/"}),
           Max({i \in DOMAIN name : name[i] = "."}) - 1)

\* C14: ingesting a CSV or Excel file and then reading the schema yields exactly one
\* table, named after the file's base name, with the source's columns in their order.
C14_IngestThenInspect ==
    (rOut.ran /\ EndsWithExt(rIn.name, {extCsv, extXls, extXlsx}))
    => /\ ~rOut.value.raised
       /\ rOut.schema = <<[table |-> Stem(rIn.name), columns |-> rIn.columns]>>

\* C15: get_db_schema always returns: the empty schema if the file is no database or
\* the columns of any table cannot be read, whatever tables were read before, and
\* otherwise every table, in the order listed, with its column names in order.
C15_InspectorAllOrNothing ==
    rOut.ran
    => IF rIn = NotADatabase \/ \E i \in DOMAIN rIn : ~IsIdentifier(rIn[i].name)
       THEN rOut.value = <<>>
       ELSE /\ Len(rOut.value) = Len(rIn)
            /\ \A i \in DOMAIN rIn : /\ rOut.value[i].table = rIn[i].name
                                     /\ rOut.value[i].columns = rIn[i].cols

\* C15 witness: two tables were read before the third one failed, and the schema
\* returned is empty.
C15_Witness ==
    /\ rOut.ran
    /\ rIn # NotADatabase /\ Len(rIn) = 3
    /\ IsIdentifier(rIn[1].name) /\ IsIdentifier(rIn[2].name) /\ ~IsIdentifier(rIn[3].name)
    /\ rOut.value = <<>>

\* C16: the cache holds at most one schema per path; between two clears get_db_schema
\* runs at most once; a load that finds the path in the cache returns the stored value
\* and leaves the cache alone; a reload clears first, so the value it stores and
\* returns is read from the database as the question left it.
C16_CacheMemoizes ==
    [][/\ \A e1, e2 \in cache' : e1.key = e2.key => e1 = e2
       /\ inspected' <= 1
       /\ (last'.kind \in {"ask", "rerun"} /\ CacheHas(cache, db_path)
             /\ ~(last'.kind = "ask" /\ last'.outcome # "remote_error" /\ last'.reloaded))
          => /\ cache' = cache
             /\ inspected' = inspected
             /\ schema = <<>> => schema' = CacheValue(cache, db_path)
       /\ (last'.kind = "ask" /\ last'.outcome # "remote_error" /\ last'.reloaded)
          => /\ cache' = {[key |-> db_path, value |-> get_db_schema(Connect(disk'))]}
             /\ schema' = get_db_schema(Connect(disk'))
             /\ inspected' = 1]_vars

\* C16 witness: a DROP emptied the database and the schema was reloaded; the next run
\* found the session schema empty and was served the stored value without inspecting.
C16_Witness ==
    /\ last.kind = "rerun"
    /\ reloads = 1 /\ inspected = 1
    /\ action_history # <<>>
    /\ schema = <<>>
    /\ cache = {[key |-> db_path, value |-> <<>>]}

\* C17: the Recent Actions view shows at most 10 entries, exactly the most recently
\* appended ones, newest first.
C17_RecentActionsNewestFirst ==
    rOut.ran
    => /\ Len(rOut.value) = (IF Len(action_history) < 10 THEN Len(action_history) ELSE 10)
       /\ \A i \in 1..Len(rOut.value) :
            rOut.value[i] = action_history[Len(action_history) + 1 - i]

\* C17 witness: twelve entries were logged, ten are shown, the newest on top and
\* different from the one below it.
C17_Witness ==
    /\ rOut.ran
    /\ Len(action_history) = 12
    /\ Len(rOut.value) = 10
    /\ rOut.value[1] = action_history[12]
    /\ rOut.value[1] # rOut.value[2]
    /\ action_history[1] # action_history[3]

\* C18: a step appends an action-log entry if and only if it clears the schema cache
\* and loads the schema again, so the log always has as many entries as reloads were
\* performed.
C18_LogIffReload ==
    [][/\ (Len(action_history') = Len(action_history) + 1) <=> (reloads' = reloads + 1)
       /\ (action_history' = action_history) <=> (reloads' = reloads)
       /\ reloads' > reloads => (inspected' = 1 /\ \A e \in cache' : e.key = db_path)
       /\ Len(action_history') = reloads']_vars

\* C18 witness: two questions were logged and each reloaded the schema.
C18_Witness ==
    /\ Answered /\ last.reloaded /\ last.appended = 1
    /\ Len(action_history) = 2
    /\ reloads = 2

\* the table of a database with the given name, names compared without case
TableNamed(db, name) == db[CHOOSE i \in DOMAIN db : Lower(db[i].name) = Lower(name)]

HasTable(db, name) == \E i \in DOMAIN db : Lower(db[i].name) = Lower(name)

\* the first n elements of a sequence, all of them when it has fewer
FirstRows(rows, n) == [i \in 1..(IF Len(rows) < n THEN Len(rows) ELSE n) |-> rows[i]]

\* C19: when the batch ends with a status string, the resolver names a table and that
\* table has rows, the result recorded for the question is the DataFrame of the table's
\* first 100 rows; in every other case it is the executor's result; and the database is
\* as the executor's connection left it.
C19_PreviewReplacesStatus ==
    (Answered /\ last.outcome = "done")
    => /\ chat_history[Len(chat_history)].result = last.result
       /\ disk = last.closed
       /\ \A t \in {IF last.run.result.type = "str" /\ last.run.result.mark = "ok"
                    THEN extract_table_name(last.sql) ELSE None} :
            IF t # None /\ HasTable(last.closed, t) /\ TableNamed(last.closed, t).rows # <<>>
            THEN last.result = DataFrame(FirstRows(TableNamed(last.closed, t).rows, 100),
                                         TableNamed(last.closed, t).cols)
            ELSE last.result = last.run.result

\* C19 witness: an INSERT into a table of more than 100 rows returned a status, and the
\* recorded result is the preview of the table's first 100 rows.
C19_Witness ==
    /\ Answered /\ last.outcome = "done"
    /\ last.run.result = StatusString(1)
    /\ last.run.attempted = <<sqlInsert>>
    /\ Len(TableNamed(disk, tblOrders).rows) = 102
    /\ IsDataFrame(last.result) /\ Len(last.result.rows) = 100

====
